---- MODULE Spec2Model ----
(***************************************************************************)
(* A model of the libproduct / libpath crates:                             *)
(*   - ProductName (base, ext, version, build), its Display rendering and  *)
(*     `with` derivation;                                                  *)
(*   - the process-wide set-once cell GLOBAL_PRODUCT_NAME;                 *)
(*   - ProductName::descriptor, the chained str::replace template engine;  *)
(*   - the libpath directory wrappers, configs_root/config_path,           *)
(*     logs_root/log_path and mkdir_if_not_exists over a small filesystem. *)
(* Rust Strings are TLA+ strings; Option<T> is <<>> (None) or <<v>>.       *)
(***************************************************************************)
EXTENDS Integers, Sequences, FiniteSets, TLC

VARIABLES
    GLOBAL_PRODUCT_NAME,  \* the OnceLock<ProductName>: None or Some(name)
    pc,                   \* registry threads: position of each thread
    call,                 \* registry threads: the call in progress and its result
    log,                  \* registry: the calls in the order they took effect
    consts,               \* identifiers: the ProductName values defined so far
    made,                 \* identifiers: how each value of consts was made
    rid, rfmt, rout, rpc, \* descriptor: receiver, format string, output, position
    dirs, files,          \* filesystem: the paths that are directories / regular files
    readonly,             \* filesystem: directories in which nothing can be created
    provider,             \* platform directory provider: kind -> Option<base path>
    now,                  \* system clock, in seconds since the Unix epoch
    th,                   \* path callers: the call each thread is in
    prev,                 \* path callers: the call each thread completed before it
    budget                \* path callers: calls each thread may still begin

regVars == <<pc, call, log>>
identVars == <<consts, made>>
renderVars == <<rid, rfmt, rout, rpc>>
fsVars == <<dirs, files, readonly, provider>>
pathVars == <<fsVars, now, th, prev, budget>>
vars == <<GLOBAL_PRODUCT_NAME, regVars, identVars, renderVars, pathVars>>

None == <<>>
Some(v) == <<v>>
IsSome(o) == o # <<>>
Unwrap(o) == o[1]

----------------------------------------------------------------------------
(* Bounds of the model. *)

NThreads == 3
MaxCalls == 4
MaxConsts == 4
MaxPieces == 2
MaxPathCalls == 2
MaxClock == 1
NRacers == 2

Threads == 1..NThreads

----------------------------------------------------------------------------
(* Strings. *)

\* The positions of s at which pat starts.
Matches(s, pat) ==
    {i \in 1..(Len(s) - Len(pat) + 1) : SubSeq(s, i, i + Len(pat) - 1) = pat}

Min(S) == CHOOSE i \in S : \A j \in S : i <= j

\* str::contains
Contains(s, pat) == Matches(s, pat) # {}

\* str::replace: every non-overlapping match of `from`, leftmost first, is
\* replaced by `to`; the replacement text is not searched again.
RECURSIVE Replace(_, _, _)
Replace(s, from, to) ==
    IF Matches(s, from) = {} THEN s
    ELSE LET i == Min(Matches(s, from))
         IN  SubSeq(s, 1, i - 1) \o to \o
             Replace(SubSeq(s, i + Len(from), Len(s)), from, to)

\* str::trim, over the one whitespace character the model's strings use.
RECURSIVE TrimStart(_)
TrimStart(s) ==
    IF Len(s) > 0 /\ SubSeq(s, 1, 1) = " " THEN TrimStart(Tail(s)) ELSE s

RECURSIVE TrimEnd(_)
TrimEnd(s) ==
    IF Len(s) > 0 /\ SubSeq(s, Len(s), Len(s)) = " "
    THEN TrimEnd(SubSeq(s, 1, Len(s) - 1)) ELSE s

Trim(s) == TrimEnd(TrimStart(s))

Digit(d) == SubSeq("0123456789", d + 1, d + 1)

\* ToString for an unsigned integer.
RECURSIVE IntToString(_)
IntToString(n) ==
    IF n < 10 THEN Digit(n) ELSE IntToString(n \div 10) \o Digit(n % 10)

\* Vec<String>::join
RECURSIVE JoinWith(_, _)
JoinWith(v, sep) ==
    IF v = <<>> THEN ""
    ELSE IF Len(v) = 1 THEN v[1]
    ELSE v[1] \o sep \o JoinWith(Tail(v), sep)

----------------------------------------------------------------------------
(* ProductName. *)

\* ProductName::new
new(base, version, package) ==
    [base |-> base, ext |-> <<>>, version |-> version, build |-> package]

\* A mutation of `with`: the segment is pushed on the receiver's own list.
with_aliased(self, ext) ==
    LET this == [self EXCEPT !.ext = Append(@, ext)]
    IN  [self |-> this, ret |-> this]

\* ProductName::with: the receiver after the call and the value returned.
with(self, ext) ==
    LET this == [self EXCEPT !.ext = Append(@, ext)]   \* clone, then push
    IN  [self |-> self, ret |-> this]

\* A mutation of Display: the separator is written after each segment.
RECURSIVE fmt_exts_dot_after(_, _)
fmt_exts_dot_after(f, exts) ==
    IF exts = <<>> THEN f
    ELSE fmt_exts_dot_after(f \o Head(exts) \o ".", Tail(exts))

\* The `for ext in &self.ext { write!(f, ".{ext}") }` loop of Display::fmt.
RECURSIVE fmt_exts(_, _)
fmt_exts(f, exts) ==
    IF exts = <<>> THEN f
    ELSE fmt_exts(f \o "." \o Head(exts), Tail(exts))

\* impl Display for ProductName (to_string)
to_string(self) == fmt_exts(self.base, self.ext)

\* ProductName::name
name(self) == to_string(self)

\* ProductName::version
version(self) ==
    IF IsSome(self.build) /\ IsSome(Unwrap(self.build).package.version)
    THEN Unwrap(Unwrap(self.build).package.version)
    ELSE self.version

----------------------------------------------------------------------------
(* Inputs: build records (libbuildinfo::BuildInfo) and identifiers. *)

BuildClean ==
    [package |-> [version |-> Some("1.2.3")],
     git |-> [branch |-> Some("main"), commit_hash |-> "7d712abc048a",
              commit_short_hash |-> "7d712ab", dirty |-> FALSE,
              commit_message |-> Some(" fix {GIT_AUTHOR} "),
              author_name |-> Some("Charlie"), author_email |-> None,
              tags |-> <<"v1", "latest">>, remote_url |-> None,
              commit_count |-> Some(42)],
     agent |-> [hostname |-> "mbp", ncpus |-> 14,
                os |-> [name |-> "Darwin", version |-> "25.0.0",
                        long_version |-> "macOS 26.0", architecture |-> "arm64"],
                memory |-> [total |-> [human |-> "25.77 GB"]]]]

BuildDirty ==
    [package |-> [version |-> None],
     git |-> [branch |-> None, commit_hash |-> "0badc0de0bad",
              commit_short_hash |-> "0badc0d", dirty |-> TRUE,
              commit_message |-> None,
              author_name |-> Some("{BUILD_OS}"), author_email |-> Some("c@thmsn.dev"),
              tags |-> <<>>, remote_url |-> Some("git@host:repo"),
              commit_count |-> None],
     agent |-> [hostname |-> "ci", ncpus |-> 2,
                os |-> [name |-> "Linux", version |-> "6.1", long_version |-> "Linux 6.1",
                        architecture |-> "x86_64"],
                memory |-> [total |-> [human |-> "8 GB"]]]]

Builds == {None, Some(BuildClean), Some(BuildDirty)}

\* product_name!("dev.thmsn.libpath.testing") of the testing binary
PRODUCT_NAME == new("dev.thmsn.libpath.testing", "0.1.0", None)

\* The identifier thread t registers: its own, differing in every field.
ThreadName(t) ==
    LET base == new("dev.thmsn.libpath.testing", IntToString(t) \o ".0.0",
                    IF t % 2 = 0 THEN Some(BuildDirty) ELSE None)
    IN  with(base, "t" \o IntToString(t)).ret

----------------------------------------------------------------------------
(* GlobalRegistry: GLOBAL_PRODUCT_NAME, set_global, global. *)

AlreadySet == "Product name has already been set"

\* A mutation of set_global: a plain store instead of OnceLock::set.
set_global_overwrite(cell, self) ==
    [cell |-> Some(self), ret |-> "Ok"]

\* A mutation of set_global: the error is reported but the value is stored.
set_global_clobber(cell, self) ==
    IF cell = None
    THEN [cell |-> Some(self), ret |-> "Ok"]
    ELSE [cell |-> Some(self), ret |-> AlreadySet]

\* ProductName::set_global: OnceLock::set(self.clone()) with the error mapped.
\* OnceLock::set is one atomic step: it stores only into an empty cell.
set_global(cell, self) ==
    IF cell = None
    THEN [cell |-> Some(self), ret |-> "Ok"]
    ELSE [cell |-> cell, ret |-> AlreadySet]

\* ProductName::global: GLOBAL_PRODUCT_NAME.get().cloned()
global(cell) == cell

RegIdle ==
    /\ pc = [t \in Threads |-> "idle"]
    /\ call = [t \in Threads |-> [op |-> "", arg |-> None, ret |-> None]]
    /\ log = <<>>

\* A thread invokes set_global on its own identifier, or global().
Call(t) ==
    /\ pc[t] = "idle"
    /\ Len(log) + Cardinality({u \in Threads : pc[u] = "called"}) < MaxCalls
    /\ \E op \in {"set_global", "global"} :
          call' = [call EXCEPT ![t] =
                      [op |-> op,
                       arg |-> IF op = "set_global" THEN Some(ThreadName(t)) ELSE None,
                       ret |-> None]]
    /\ pc' = [pc EXCEPT ![t] = "called"]
    /\ UNCHANGED <<GLOBAL_PRODUCT_NAME, log, identVars, renderVars, pathVars>>

\* The call takes effect.
Exec(t) ==
    /\ pc[t] = "called"
    /\ LET r == IF call[t].op = "set_global"
                THEN set_global(GLOBAL_PRODUCT_NAME, Unwrap(call[t].arg))
                ELSE [cell |-> GLOBAL_PRODUCT_NAME, ret |-> global(GLOBAL_PRODUCT_NAME)]
       IN  /\ GLOBAL_PRODUCT_NAME' = r.cell
           /\ call' = [call EXCEPT ![t].ret = Some(r.ret)]
           /\ log' = Append(log, [thread |-> t, op |-> call[t].op, arg |-> call[t].arg,
                                  ret |-> r.ret, after |-> r.cell])
    /\ pc' = [pc EXCEPT ![t] = "returned"]
    /\ UNCHANGED <<identVars, renderVars, pathVars>>

\* The call returns to its caller.
Return(t) ==
    /\ pc[t] = "returned"
    /\ pc' = [pc EXCEPT ![t] = "idle"]
    /\ UNCHANGED <<GLOBAL_PRODUCT_NAME, call, log, identVars, renderVars, pathVars>>

IdentIdle == consts = <<>> /\ made = <<>>
RenderIdle == rid = PRODUCT_NAME /\ rfmt = "" /\ rout = "" /\ rpc = "idle"

\* A thread that is in no path call.
NoCall ==
    [op |-> "", arg |-> "", todo |-> <<>>, pending |-> <<>>, reg0 |-> None,
     product_name |-> "", path |-> "", secs |-> None, status |-> "idle",
     err |-> "", created |-> {}, raced |-> FALSE]

PathIdle ==
    /\ dirs = {<<>>} /\ files = {} /\ readonly = {}
    /\ provider = [k \in {"data_local_dir", "cache_dir"} |-> None]
    /\ now = 0
    /\ th = [t \in Threads |-> NoCall]
    /\ prev = [t \in Threads |-> NoCall]
    /\ budget = [t \in Threads |-> 0]

InitRegistry ==
    /\ GLOBAL_PRODUCT_NAME = None
    /\ RegIdle /\ IdentIdle /\ RenderIdle /\ PathIdle

NextRegistry == \E t \in Threads : Call(t) \/ Exec(t) \/ Return(t)

SpecRegistry == InitRegistry /\ [][NextRegistry]_vars

SetCalls == {k \in DOMAIN log : log[k].op = "set_global"}

\* The set_global calls that took effect before the k-th call.
SetBefore(k) == {j \in SetCalls : j < k}

FirstSet(S) == CHOOSE j \in S : \A i \in S : j <= i

\* C1: when two or more threads have called set_global, each on its own
\* identifier, and every call has returned, exactly one call returned Ok,
\* every other one returned the already-set error, and global() returns the
\* identifier of the call that returned Ok.
C1_ExactlyOneWinner ==
    LET callers == {log[k].thread : k \in SetCalls}
    IN  (Cardinality(callers) >= 2 /\ \A t \in Threads : pc[t] = "idle") =>
            \E w \in SetCalls :
                /\ log[w].ret = "Ok"
                /\ \A k \in SetCalls \ {w} : log[k].ret = AlreadySet
                /\ global(GLOBAL_PRODUCT_NAME) = Some(ThreadName(log[w].thread))

\* Every thread has called set_global, all calls have returned, and the
\* thread that won is not the first one.
C1_Witness ==
    /\ {log[k].thread : k \in SetCalls} = Threads
    /\ \A t \in Threads : pc[t] = "idle"
    /\ \E k \in SetCalls : log[k].ret = "Ok" /\ log[k].thread # 1

\* C2: in the order the calls take effect, global() returns None before the
\* first set_global and the first registered identifier after it; the first
\* set_global returns Ok and stores its identifier; every later set_global
\* returns the already-set error and leaves the first identifier stored.
C2_SetOnce ==
    \A k \in DOMAIN log :
        LET before == SetBefore(k)
        IN  IF log[k].op = "global"
            THEN log[k].ret = (IF before = {} THEN None ELSE log[FirstSet(before)].arg)
            ELSE IF before = {}
                 THEN log[k].ret = "Ok" /\ log[k].after = log[k].arg
                 ELSE /\ log[k].ret = AlreadySet
                      /\ log[k].after = log[FirstSet(before)].arg

\* global() before any registration, a registration, a second registration
\* by another thread, and global() again.
C2_Witness ==
    /\ Len(log) >= 4
    /\ log[1].op = "global" /\ log[2].op = "set_global"
    /\ log[3].op = "set_global" /\ log[3].thread # log[2].thread
    /\ log[4].op = "global" /\ log[4].ret = log[2].arg

----------------------------------------------------------------------------
(* Identifiers defined by product_name! and derived by `with`. *)

CARGO_PKG_VERSION == "0.1.0"

Bases == {"dev.thmsn.ext", ""}
Exts == {"app", "another_ext"}

\* product_name!(with base $base as $as): a new constant.
Define(base, build) ==
    /\ Len(consts) < MaxConsts
    /\ LET p == new(base, CARGO_PKG_VERSION, build)
       IN  /\ consts' = Append(consts, p)
           /\ made' = Append(made, [from |-> 0, arg |-> base, value |-> p])
    /\ UNCHANGED <<GLOBAL_PRODUCT_NAME, regVars, renderVars, pathVars>>

\* product_name!(from $from with extension $ext as $as): $from.with($ext).
Derive(i, ext) ==
    /\ Len(consts) < MaxConsts
    /\ LET r == with(consts[i], ext)
       IN  /\ consts' = Append([consts EXCEPT ![i] = r.self], r.ret)
           /\ made' = Append(made, [from |-> i, arg |-> ext, value |-> r.ret])
    /\ UNCHANGED <<GLOBAL_PRODUCT_NAME, regVars, renderVars, pathVars>>

InitIdent ==
    /\ GLOBAL_PRODUCT_NAME = None
    /\ RegIdle /\ IdentIdle /\ RenderIdle /\ PathIdle

NextIdent ==
    \/ \E base \in Bases, build \in {None, Some(BuildDirty)} : Define(base, build)
    \/ \E i \in DOMAIN consts, ext \in Exts : Derive(i, ext)

SpecIdent == InitIdent /\ [][NextIdent]_vars

\* The base a constant goes back to, and the segments added on the way.
RECURSIVE Root(_)
Root(i) == IF made[i].from = 0 THEN made[i].arg ELSE Root(made[i].from)

RECURSIVE Chain(_)
Chain(i) ==
    IF made[i].from = 0 THEN <<>> ELSE Append(Chain(made[i].from), made[i].arg)

\* '.e1' '.e2' ... '.en'
RECURSIVE Dotted(_)
Dotted(exts) ==
    IF exts = <<>> THEN "" ELSE ("." \o Head(exts)) \o Dotted(Tail(exts))

\* C5: the rendered name of an identifier made from base b by successive
\* with calls adding e1..en is b followed by '.e1', ..., '.en' in that order,
\* and b itself when n = 0.
C5_RenderedName ==
    \A i \in DOMAIN consts :
        name(consts[i]) = Root(i) \o Dotted(Chain(i))

\* An identifier two with calls away from its base (the macro chained twice).
C5_Witness ==
    \E i \in DOMAIN consts :
        /\ Len(Chain(i)) = 2 /\ Chain(i)[1] # Chain(i)[2]
        /\ name(consts[i]) = "dev.thmsn.ext.app.another_ext"

\* C6: no with call changes its receiver or any other identifier: each
\* identifier still has the value it was made with, and an identifier made by
\* with(e) has its receiver's base, version and build and exactly the
\* receiver's segments followed by e.
C6_WithLeavesReceiver ==
    \A i \in DOMAIN consts :
        /\ consts[i] = made[i].value
        /\ made[i].from # 0 =>
              LET p == consts[made[i].from]
              IN  /\ consts[i].ext = Append(p.ext, made[i].arg)
                  /\ consts[i].base = p.base
                  /\ consts[i].version = p.version
                  /\ consts[i].build = p.build

\* Two identifiers derived from the same receiver with different segments,
\* and a further one derived from the first of them.
C6_Witness ==
    \E i, j, k \in DOMAIN consts :
        /\ i # j /\ made[i].from # 0 /\ made[i].from = made[j].from
        /\ made[i].arg # made[j].arg
        /\ made[k].from = i

----------------------------------------------------------------------------
(* DescriptorTemplate: the format catalog and ProductName::descriptor. *)

SHORT == "{NAME} v{VERSION}"
DEFAULT == "{NAME} v{VERSION} ({GIT_REF}@{GIT_HASH})"
DEFAULT_DIRTY == "{NAME} v{VERSION} ({GIT_REF}@{GIT_HASH}{GIT_DIRTY_STAR})"
LONG == "{NAME} v{VERSION} | {GIT_REF}@{GIT_HASH} | {BUILD_HOST} ({BUILD_OS} {BUILD_OS_VERSION})"
FULL == "{NAME} v{VERSION} | {GIT_REF}@{GIT_HASH} {GIT_DIRTY} | {GIT_AUTHOR} | {BUILD_HOST} ({BUILD_OS_LONG} {BUILD_ARCH})"
USER_AGENT == "{NAME}/{VERSION} ({BUILD_OS}; {BUILD_ARCH})"
GIT_REF_SHORT == "{GIT_REF}@{GIT_HASH}"

Catalog == {SHORT, DEFAULT, DEFAULT_DIRTY, LONG, FULL, USER_AGENT, GIT_REF_SHORT}

\* The closure `opt` of descriptor: o.unwrap_or("").to_string()
opt(o) == IF IsSome(o) THEN Unwrap(o) ELSE ""

\* The .replace(key, value) calls of descriptor, in the order they are chained:
\* the first two, then those of the branch `if let Some(build) = &self.build`
\* or those of its else branch.
replacements(self) ==
    <<  <<"{NAME}", name(self)>>, <<"{VERSION}", version(self)>>  >> \o
    IF IsSome(self.build)
    THEN LET build == Unwrap(self.build)
             git == build.git
             agent == build.agent
         IN  << <<"{GIT_REF}", opt(git.branch)>>,
                <<"{GIT_LONG_HASH}", git.commit_hash>>,
                <<"{GIT_HASH}", git.commit_short_hash>>,
                <<"{GIT_DIRTY}", IF git.dirty THEN "dirty" ELSE "">>,
                <<"{GIT_DIRTY_STAR}", IF git.dirty THEN "*" ELSE "">>,
                <<"{GIT_MESSAGE}", Trim(opt(git.commit_message))>>,
                <<"{GIT_AUTHOR}", opt(git.author_name)>>,
                <<"{GIT_EMAIL}", opt(git.author_email)>>,
                <<"{GIT_TAGS}", JoinWith(git.tags, ",")>>,
                <<"{GIT_REMOTE}", opt(git.remote_url)>>,
                <<"{GIT_COMMIT_COUNT}",
                  IF IsSome(git.commit_count)
                  THEN IntToString(Unwrap(git.commit_count)) ELSE "">>,
                <<"{BUILD_HOST}", agent.hostname>>,
                <<"{BUILD_OS}", agent.os.name>>,
                <<"{BUILD_OS_VERSION}", agent.os.version>>,
                <<"{BUILD_OS_LONG}", agent.os.long_version>>,
                <<"{BUILD_ARCH}", agent.os.architecture>>,
                <<"{BUILD_CPUS}", IntToString(agent.ncpus)>>,
                <<"{BUILD_MEM}", agent.memory.total.human>> >>
    ELSE << <<"{GIT_REF}", "">>,
            <<"{GIT_LONG_HASH}", "">>,
            <<"{GIT_HASH}", "">>,
            <<"{GIT_DIRTY}", "">>,
            <<"{GIT_MESSAGE}", "">>,
            <<"{GIT_AUTHOR}", "">>,
            <<"{GIT_EMAIL}", "">>,
            <<"{GIT_TAGS}", "">>,
            <<"{GIT_REMOTE}", "">>,
            <<"{GIT_COMMIT_COUNT}", "">>,
            <<"{BUILD_HOST}", "">>,
            <<"{BUILD_OS}", "">>,
            <<"{BUILD_OS_VERSION}", "">>,
            <<"{BUILD_OS_LONG}", "">>,
            <<"{BUILD_ARCH}", "">>,
            <<"{BUILD_CPUS}", "">>,
            <<"{BUILD_MEM}", "">> >>

\* out.replace(k1, v1).replace(k2, v2)...: each call rewrites the whole
\* output of the one before it.
RECURSIVE replace_chain(_, _)
replace_chain(out, reps) ==
    IF reps = <<>> THEN out
    ELSE replace_chain(Replace(out, Head(reps)[1], Head(reps)[2]), Tail(reps))

\* ProductName::descriptor
descriptor(self, fmt) == replace_chain(fmt, replacements(self))

\* Ad hoc format strings: up to MaxPieces pieces, each a key or plain text.
Pieces ==
    {"{NAME}", "{VERSION}", "{GIT_DIRTY}", "{GIT_DIRTY_STAR}", "{GIT_MESSAGE}",
     "{GIT_AUTHOR}", "{BUILD_CPUS}", "{OTHER}", " v", "{"}

RECURSIVE FormatsOf(_)
FormatsOf(n) ==
    IF n = 0 THEN {""}
    ELSE LET shorter == FormatsOf(n - 1)
         IN  shorter \cup {f \o p : f \in shorter, p \in Pieces}

Formats == Catalog \cup {"{NAME} v{VERSION}, {GIT_REF}"} \cup FormatsOf(MaxPieces)

\* Receivers: a plain identifier, and ones whose name or version holds key text.
RenderNames ==
    {[base |-> b, ext |-> e, version |-> v, build |-> bi] :
        b \in {"dev.thmsn.app", "{VERSION}"}, e \in {<<>>, <<"x{GIT_AUTHOR}">>},
        v \in {"0.1.0", "{GIT_DIRTY}"}, bi \in Builds}

InitRender ==
    /\ GLOBAL_PRODUCT_NAME = None
    /\ RegIdle /\ IdentIdle /\ PathIdle
    /\ rid \in RenderNames /\ rfmt \in Formats
    /\ rout = "" /\ rpc = "ready"

\* name.descriptor(fmt)
Descriptor ==
    /\ rpc = "ready"
    /\ rout' = descriptor(rid, rfmt)
    /\ rpc' = "done"
    /\ UNCHANGED <<GLOBAL_PRODUCT_NAME, regVars, identVars, rid, rfmt, pathVars>>

NextRender == Descriptor

SpecRender == InitRender /\ [][NextRender]_vars

\* The git and build placeholder keys of the catalog (the doc table of
\* `format`, and {GIT_DIRTY_STAR} of the DEFAULT_DIRTY preset).
GitBuildKeys ==
    <<"{GIT_REF}", "{GIT_HASH}", "{GIT_LONG_HASH}", "{GIT_DIRTY}", "{GIT_DIRTY_STAR}",
      "{GIT_MESSAGE}", "{GIT_AUTHOR}", "{GIT_EMAIL}", "{GIT_TAGS}", "{GIT_REMOTE}",
      "{GIT_COMMIT_COUNT}", "{BUILD_HOST}", "{BUILD_OS}", "{BUILD_OS_VERSION}",
      "{BUILD_OS_LONG}", "{BUILD_ARCH}", "{BUILD_CPUS}", "{BUILD_MEM}">>

CatalogKeys == {"{NAME}", "{VERSION}"} \cup {GitBuildKeys[i] : i \in DOMAIN GitBuildKeys}

\* One left-to-right pass over the format string: a key found in it is
\* replaced by its value and the scan goes on after the key; the value is
\* never scanned.
RECURSIVE SinglePass(_, _)
SinglePass(s, reps) ==
    LET at(i) == {k \in DOMAIN reps : i \in Matches(s, reps[k][1])}
        hits == {i \in 1..Len(s) : at(i) # {}}
    IN  IF hits = {} THEN s
        ELSE LET i == Min(hits)
                 k == Min(at(i))
             IN  SubSeq(s, 1, i - 1) \o reps[k][2] \o
                 SinglePass(SubSeq(s, i + Len(reps[k][1]), Len(s)), reps)

\* What the catalog's keys stand for without a build record: the rendered
\* name, the identifier's version, and the empty string for every other key.
NoBuildValues(self) ==
    << <<"{NAME}", name(self)>>, <<"{VERSION}", self.version>> >> \o
    [i \in DOMAIN GitBuildKeys |-> <<GitBuildKeys[i], "">>]

\* C3: for an identifier with no build record, descriptor replaces {NAME} by
\* the rendered name, {VERSION} by the identifier's version and every git or
\* build key of the catalog, the dirty-marker key {GIT_DIRTY_STAR} included,
\* by the empty string, and no catalog key remains in the output.  (Stated
\* for names and versions without a brace, which bring no key text in.)
C3_NoBuildNoKeyRemains ==
    (/\ rpc = "done" /\ rid.build = None
     /\ ~Contains(name(rid), "{") /\ ~Contains(version(rid), "{")) =>
        /\ rout = SinglePass(rfmt, NoBuildValues(rid))
        /\ \A k \in CatalogKeys : ~Contains(rout, k)

\* C4: descriptor is a single-pass substitution: a key that appears only
\* inside a substituted value is not substituted, so the output is that of
\* one pass over the format string with the keys descriptor handles.
C4_SinglePass ==
    rpc = "done" => rout = SinglePass(rfmt, replacements(rid))

----------------------------------------------------------------------------
(* PathResolver: PathBuf, the filesystem, and the libpath functions. *)

\* Path::is_absolute (Unix)
is_absolute(s) == Len(s) > 0 /\ SubSeq(s, 1, 1) = "/"

\* PathBuf::join (PathBuf::push on a clone): an absolute argument replaces the
\* path; otherwise it is appended, after a separator unless one is there.
join(path, s) ==
    IF is_absolute(s) THEN s
    ELSE IF path = "" \/ SubSeq(path, Len(path), Len(path)) = "/" THEN path \o s
    ELSE path \o "/" \o s

\* Path::components of an absolute path, without the root: empty components
\* and `.` are dropped.  PathBuf equality compares components.
RECURSIVE components(_)
components(s) ==
    IF s = "" THEN <<>>
    ELSE LET m == Matches(s, "/")
             i == IF m = {} THEN Len(s) + 1 ELSE Min(m)
             head == SubSeq(s, 1, i - 1)
             rest == components(SubSeq(s, i + 1, Len(s)))
         IN  IF head = "" \/ head = "." THEN rest ELSE <<head>> \o rest

parent(q) == SubSeq(q, 1, Len(q) - 1)

\* Path::exists
exists(path) == components(path) \in dirs \cup files

\* mkdir(2) on the path with components q.
mkdir(q) ==
    CASE \E n \in 0..(Len(q) - 1) : SubSeq(q, 1, n) \in files -> "ENOTDIR"
      [] q \notin dirs \cup files /\ parent(q) \notin dirs -> "ENOENT"
      [] q \in dirs \cup files -> "EEXIST"
      [] parent(q) \in readonly -> "EACCES"
      [] OTHER -> "Ok"

\* A mutation of create_dir_all: an error of mkdir is an error, also when the
\* directory is there.
create_dir_all_strict(r, isdir) ==
    CASE r = "Ok" -> "created"
      [] r = "ENOENT" -> "recurse"
      [] OTHER -> "err"

\* One level of std::fs::create_dir_all, called at line 37: mkdir; NotFound
\* makes it create the parent first and try again; any other error is
\* success if the path is a directory by then.
create_dir_all(r, isdir) ==
    CASE r = "Ok" -> "created"
      [] r = "ENOENT" -> "recurse"
      [] isdir -> "ok"
      [] OTHER -> "err"

\* A mutation of mkdir_if_not_exists: create_dir without the exists check,
\* for which a path that is there is an error.
mkdir_if_not_exists_unchecked(present) ==
    IF present THEN "fail" ELSE "create"

\* MkdirIfNotExists for PathBuf: return self if it exists, else create it.
mkdir_if_not_exists(present) ==
    IF present THEN "return" ELSE "create"

\* product_name!(with base "dev.thmsn.unspecified" as DEFAULT_PRODUCT_NAME)
DEFAULT_PRODUCT_NAME == new("dev.thmsn.unspecified", CARGO_PKG_VERSION, None)

\* A mutation of the name lookup: the registry is not consulted.
product_name_default_only(cell) == to_string(DEFAULT_PRODUCT_NAME)

\* ProductName::global().map_or(DEFAULT_PRODUCT_NAME.to_string(), |n| n.to_string())
product_name_of(cell) ==
    IF global(cell) = None THEN to_string(DEFAULT_PRODUCT_NAME)
    ELSE to_string(Unwrap(global(cell)))

\* A mutation of the provider lookup: a missing base path becomes the empty one.
dirs_base_or_default(o, product_name) ==
    IF o = None THEN [ok |-> TRUE, path |-> join("", product_name)]
    ELSE [ok |-> TRUE, path |-> join(Unwrap(o), product_name)]

\* ::dirs::$original_name().expect("cant find ...").join(&product_name)
dirs_base(o, product_name) ==
    IF o = None THEN [ok |-> FALSE, path |-> ""]
    ELSE [ok |-> TRUE, path |-> join(Unwrap(o), product_name)]

\* epoch(): Err (a panic) when the clock is before the Unix epoch.
epoch(clock) == IF clock < 0 THEN None ELSE Some(clock)

\* The steps of a call, in the order the code takes them.
I(i, a) == [i |-> i, a |-> a]

\* The function wrap_dirs! generates for ::dirs::$original_name.
wrap_dirs(original_name) ==
    << I("global", ""), I("dirs", original_name), I("mkdir", "") >>

data_local_dir == wrap_dirs("data_local_dir")
cache_dir == wrap_dirs("cache_dir")

configs_root == data_local_dir \o << I("join", "configs"), I("mkdir", "") >>

config_path(module) ==
    configs_root \o << I("mkdir", ""), I("join", module \o ".toml") >>

logs_root == data_local_dir \o << I("join", "logs"), I("mkdir", "") >>

log_path == logs_root \o << I("mkdir", ""), I("join_epoch", "") >>

Program(c) ==
    CASE c.op = "data_local_dir" -> data_local_dir
      [] c.op = "cache_dir" -> cache_dir
      [] c.op = "configs_root" -> configs_root
      [] c.op = "config_path" -> config_path(c.arg)
      [] c.op = "logs_root" -> logs_root
      [] c.op = "log_path" -> log_path
      [] c.op = "mkdir_if_not_exists" -> << I("mkdir", "") >>

Kinds == {"data_local_dir", "cache_dir"}
DirFns == Kinds

DataLocal == "/home/u/.local/share"
Cache == "/home/u/.cache"
Home == <<"home", "u">>

\* The calls of the sequential caller, and those of the racing threads.
PathCalls ==
    {[op |-> o, arg |-> ""] :
        o \in {"data_local_dir", "cache_dir", "configs_root", "logs_root", "log_path"}}
    \cup {[op |-> "config_path", arg |-> m] : m \in {"database", "/etc/db"}}

RaceCalls ==
    {[op |-> "data_local_dir", arg |-> ""], [op |-> "configs_root", arg |-> ""],
     [op |-> "mkdir_if_not_exists", arg |-> DataLocal \o "/dev.thmsn.unspecified/configs"]}

\* The identifiers a program registers.
PathNames ==
    {with(new("dev.thmsn.app", CARGO_PKG_VERSION, None), "cli").ret,
     new("/opt/app", CARGO_PKG_VERSION, None)}

\* The thread's record once the step at the head of todo is done.
Advance(r) ==
    LET rest == Tail(r.todo)
    IN  [r EXCEPT !.todo = rest,
                  !.status = IF rest = <<>> THEN "returned" ELSE "running"]

Panic(r, msg) == [r EXCEPT !.todo = <<>>, !.pending = <<>>, !.status = "panicked", !.err = msg]

Running(t, i) == th[t].status = "running" /\ Head(th[t].todo).i = i /\ th[t].pending = <<>>

\* A thread calls one of the functions.
Begin(t, c) ==
    /\ th[t].status # "running"
    /\ budget[t] > 0
    /\ budget' = [budget EXCEPT ![t] = @ - 1]
    /\ prev' = [prev EXCEPT ![t] = th[t]]
    /\ th' = [th EXCEPT ![t] =
                [NoCall EXCEPT !.op = c.op, !.arg = c.arg, !.todo = Program(c),
                               !.path = IF c.op = "mkdir_if_not_exists" THEN c.arg ELSE "",
                               !.reg0 = GLOBAL_PRODUCT_NAME, !.status = "running"]]
    /\ UNCHANGED <<GLOBAL_PRODUCT_NAME, regVars, identVars, renderVars, fsVars, now>>

\* let product_name = ProductName::global().map_or(...)
StepGlobal(t) ==
    /\ Running(t, "global")
    /\ th' = [th EXCEPT ![t] =
                Advance([@ EXCEPT !.product_name = product_name_of(GLOBAL_PRODUCT_NAME)])]
    /\ UNCHANGED <<GLOBAL_PRODUCT_NAME, regVars, identVars, renderVars, fsVars, now,
                   prev, budget>>

\* ::dirs::$original_name().expect(...).join(&product_name)
StepDirs(t) ==
    /\ Running(t, "dirs")
    /\ LET b == dirs_base(provider[Head(th[t].todo).a], th[t].product_name)
       IN  th' = [th EXCEPT ![t] =
                    IF b.ok THEN Advance([@ EXCEPT !.path = b.path])
                    ELSE Panic(@, "cant find")]
    /\ UNCHANGED <<GLOBAL_PRODUCT_NAME, regVars, identVars, renderVars, fsVars, now,
                   prev, budget>>

\* .join("configs"), .join("logs"), .join(format!("{module}.toml"))
StepJoin(t) ==
    /\ Running(t, "join")
    /\ th' = [th EXCEPT ![t] =
                Advance([@ EXCEPT !.path = join(@, Head(th[t].todo).a)])]
    /\ UNCHANGED <<GLOBAL_PRODUCT_NAME, regVars, identVars, renderVars, fsVars, now,
                   prev, budget>>

\* .join(format!("log_{}.json", epoch()))
StepEpoch(t) ==
    /\ Running(t, "join_epoch")
    /\ LET e == epoch(now)
       IN  th' = [th EXCEPT ![t] =
                    IF e = None THEN Panic(@, "Why are you in the past?")
                    ELSE Advance([@ EXCEPT
                            !.secs = e,
                            !.path = join(@, "log_" \o IntToString(Unwrap(e)) \o ".json")])]
    /\ UNCHANGED <<GLOBAL_PRODUCT_NAME, regVars, identVars, renderVars, fsVars, now,
                   prev, budget>>

\* mkdir_if_not_exists: `if self.exists() { return self; }`
StepExists(t) ==
    /\ Running(t, "mkdir")
    /\ LET d == mkdir_if_not_exists(exists(th[t].path))
       IN  th' = [th EXCEPT ![t] =
                    CASE d = "return" -> Advance(@)
                      [] d = "create" -> [@ EXCEPT !.pending = <<components(th[t].path)>>]
                      [] OTHER -> Panic(@, "Failed to create directory")]
    /\ UNCHANGED <<GLOBAL_PRODUCT_NAME, regVars, identVars, renderVars, fsVars, now,
                   prev, budget>>

\* mkdir_if_not_exists: one mkdir of
\* `std::fs::create_dir_all(&self).expect("Failed to create directory")`
StepMkdir(t) ==
    /\ th[t].status = "running" /\ th[t].pending # <<>>
    /\ LET q == Head(th[t].pending)
           d == create_dir_all(mkdir(q), q \in dirs)
           left == Tail(th[t].pending)
           done(r) == IF left = <<>> THEN Advance([r EXCEPT !.pending = left])
                      ELSE [r EXCEPT !.pending = left]
       IN  /\ dirs' = IF d = "created" THEN dirs \cup {q} ELSE dirs
           /\ th' = [th EXCEPT ![t] =
                       CASE d = "created" -> done([@ EXCEPT !.created = @ \cup {q}])
                         [] d = "recurse" -> [@ EXCEPT !.pending = <<parent(q)>> \o @]
                         [] d = "ok" -> done([@ EXCEPT !.raced = TRUE])
                         [] OTHER -> Panic(@, "Failed to create directory")]
    /\ UNCHANGED <<GLOBAL_PRODUCT_NAME, regVars, identVars, renderVars, files, readonly,
                   provider, now, prev, budget>>

\* The program registers its identifier (at any time, from any thread).
Register(p) ==
    /\ GLOBAL_PRODUCT_NAME' = set_global(GLOBAL_PRODUCT_NAME, p).cell
    /\ UNCHANGED <<regVars, identVars, renderVars, pathVars>>

\* A second passes.
Tick ==
    /\ now < MaxClock
    /\ now' = now + 1
    /\ UNCHANGED <<GLOBAL_PRODUCT_NAME, regVars, identVars, renderVars, fsVars, th,
                   prev, budget>>

\* The directories of a filesystem in which these paths are directories:
\* they and all their ancestors.
Tree(paths) == UNION {{SubSeq(q, 1, n) : n \in 0..Len(q)} : q \in paths}

App == components(DataLocal) \o <<"dev.thmsn.unspecified">>

\* The filesystems a call may find: nothing but the home directory; the base
\* directories; the same, read-only; a regular file where the application
\* directory goes; one where its configs directory goes.
Filesystems ==
    {[dirs |-> Tree({Home}), files |-> {}, readonly |-> {}],
     [dirs |-> Tree({components(DataLocal), components(Cache)}), files |-> {},
      readonly |-> {}],
     [dirs |-> Tree({components(DataLocal), components(Cache)}), files |-> {},
      readonly |-> {components(DataLocal), components(Cache)}],
     [dirs |-> Tree({components(DataLocal)}), files |-> {App}, readonly |-> {}],
     [dirs |-> Tree({App}), files |-> {App \o <<"configs">>}, readonly |-> {}]}

Providers ==
    {[k \in Kinds |-> IF k \in S THEN None
                      ELSE Some(IF k = "data_local_dir" THEN DataLocal ELSE Cache)] :
        S \in {{}, {"data_local_dir"}, {"cache_dir"}}}

InitPath ==
    /\ GLOBAL_PRODUCT_NAME = None
    /\ RegIdle /\ IdentIdle /\ RenderIdle
    /\ \E f \in Filesystems : dirs = f.dirs /\ files = f.files /\ readonly = f.readonly
    /\ provider \in Providers
    /\ now \in {-1, 0}
    /\ th = [t \in Threads |-> NoCall]
    /\ prev = [t \in Threads |-> NoCall]
    /\ budget = [t \in Threads |-> IF t = 1 THEN MaxPathCalls ELSE 0]

Steps(t) ==
    \/ StepGlobal(t) \/ StepDirs(t) \/ StepJoin(t) \/ StepExists(t) \/ StepMkdir(t)

NextPath ==
    \/ \E t \in Threads, c \in PathCalls : Begin(t, c)
    \/ \E t \in Threads : Steps(t) \/ StepEpoch(t)
    \/ \E p \in PathNames : Register(p)
    \/ Tick

SpecPath == InitPath /\ [][NextPath]_vars

\* Threads racing to create the same directories: a writable filesystem with
\* no regular file in the way, every thread making one call.
InitRace ==
    /\ GLOBAL_PRODUCT_NAME = None
    /\ RegIdle /\ IdentIdle /\ RenderIdle
    /\ files = {} /\ readonly = {}
    /\ dirs \in {Tree({Home}), Tree({components(DataLocal)})}
    /\ provider = [k \in Kinds |-> Some(IF k = "data_local_dir" THEN DataLocal ELSE Cache)]
    /\ now = 0
    /\ th = [t \in Threads |-> NoCall]
    /\ prev = [t \in Threads |-> NoCall]
    /\ budget = [t \in Threads |-> IF t <= NRacers THEN 1 ELSE 0]

NextRace ==
    \/ \E t \in Threads, c \in RaceCalls : Begin(t, c)
    \/ \E t \in Threads : Steps(t)

SpecRace == InitRace /\ [][NextRace]_vars

----------------------------------------------------------------------------
(* Claims about the path functions. *)

Finished(r) == r.status \in {"returned", "panicked"}

\* B/<N>, B/<N>/configs and B/<N>/configs/<m>.toml, as written.
AppDir(B, N) == B \o "/" \o N
ConfigsDir(B, N) == AppDir(B, N) \o "/configs"
ConfigFile(B, N, m) == ConfigsDir(B, N) \o "/" \o m \o ".toml"

\* N is the rendered name of the identifier registered when the call was
\* made, or of dev.thmsn.unspecified if there was none: the registry is set
\* once, so an identifier there when the call began is the one read, and with
\* none there when the call is over the default was read.
NameAtCall(r) ==
    /\ r.reg0 # None => r.product_name = name(Unwrap(r.reg0))
    /\ GLOBAL_PRODUCT_NAME = None => r.product_name = "dev.thmsn.unspecified"
    /\ \/ r.product_name = "dev.thmsn.unspecified"
       \/ /\ GLOBAL_PRODUCT_NAME # None
          /\ r.product_name = name(Unwrap(GLOBAL_PRODUCT_NAME))

Twice(t) ==
    /\ prev[t].status = "returned" /\ Finished(th[t])
    /\ th[t].op = prev[t].op /\ th[t].arg = prev[t].arg

\* C8 as stated: the second of two successive calls of a path function on
\* the same inputs (the same product name read) returns, and returns the path
\* the first one returned.
C8_SamePathTwice ==
    \A t \in Threads :
        (Twice(t) /\ th[t].product_name = prev[t].product_name) =>
            th[t].status = "returned" /\ th[t].path = prev[t].path

\* C8, amended: when both calls read the same product name, the second does
\* not fail on the provider or on creating a directory, and if it returns it
\* returns the path of the first; log_path returns it when the clock shows the
\* same second, and otherwise a file of the same directory named after the
\* second it read.
C8_SamePathSameInputs ==
    \A t \in Threads :
        (Twice(t) /\ th[t].product_name = prev[t].product_name) =>
            /\ th[t].err \notin {"cant find", "Failed to create directory"}
            /\ th[t].status = "returned" =>
                  IF th[t].op = "log_path"
                  THEN /\ parent(components(th[t].path)) = parent(components(prev[t].path))
                       /\ th[t].secs = prev[t].secs => th[t].path = prev[t].path
                       /\ th[t].secs # prev[t].secs => th[t].path # prev[t].path
                  ELSE th[t].path = prev[t].path

\* configs_root twice: the first call created directories, the second found
\* them and created none.
C8_Witness ==
    \E t \in Threads :
        /\ Twice(t) /\ th[t].op = "configs_root" /\ th[t].status = "returned"
        /\ prev[t].created # {} /\ th[t].created = {}
        /\ th[t].product_name = prev[t].product_name

C10_RaceSafe ==
    \A t \in Threads :
        /\ th[t].status # "panicked"
        /\ th[t].status = "returned" => components(th[t].path) \in dirs

\* Every racing thread has returned, and one of them found its directory
\* created by another between its exists check and its mkdir.
C10_Witness ==
    /\ \A t \in Threads : budget[t] = 0 /\ th[t].status \in {"idle", "returned"}
    /\ \E t, u \in Threads :
          /\ t # u /\ th[t].raced /\ th[t].created = {}
          /\ components(th[t].path) \in th[u].created

====
